---- MODULE Spec2Model ----
(***************************************************************************)
(* R2DT (src/r2dt.py): the template-selection cascade of `draw`, the       *)
(* ribotyper stage runner `get_ribotyper_output`, the hit bookkeeping      *)
(* (`get_seq_ids`, `get_hits`, `get_subset_fasta`) and the metadata        *)
(* aggregation `organise_metadata`.                                        *)
(*                                                                         *)
(* Text is modelled as a sequence of atoms (short strings).  A substring   *)
(* test (grep, Python `in`) is "some atom equals the keyword"; a           *)
(* str.replace rewrites every atom equal to the keyword.  A file is a      *)
(* record [exists, lines].                                                 *)
(***************************************************************************)
EXTENDS Naturals, Integers, Sequences, FiniteSets, TLC

VARIABLES
    fasta_input,            \* the input FASTA file: a sequence of lines
    output_folder,          \* the user-chosen output folder name (atoms)
    skip_ribovore_filters,  \* the --skip_ribovore_filters flag
    all_seq_ids,            \* draw: all_seq_ids
    hits,                   \* draw: hits
    subset,                 \* draw: subset (as last computed)
    subset_fasta,           \* the names held by <output_folder>/subset.fasta
    long_out,               \* per stage: <dir>/<dir>.ribotyper.long.out
    hits_txt,               \* per stage: <dir>/hits.txt
    metadata,               \* results/tsv/metadata.tsv
    calls,                  \* classifier invocations so far, in order, each
                            \* with the claimed set and the number of
                            \* renderer calls made before it
    visualised,             \* renderer calls so far, in order
    pc,                     \* position in draw: <<step, stage>>
    env,                    \* what the external tools may do in this run
    svg,                    \* the <<tag, id>> whose diagram the renderer wrote
    runs,                   \* number of times draw has been started
    image,                  \* generate_thumbnail: the SVG document
    description,            \* generate_thumbnail: the description
    thumbnail,              \* generate_thumbnail: what the call gave
    force_template,         \* the --force_template option (<<>> if not given)
    forced                  \* draw: the ids the force_template loop has done

\* the arguments and the result of generate_thumbnail
thumb_vars == << image, description, thumbnail >>

\* the state of the force_template loop of draw
force_vars == << force_template, forced >>

\* what no step of the cascade changes
other_vars == << env, runs, thumb_vars, force_vars >>

vars == << fasta_input, output_folder, skip_ribovore_filters, all_seq_ids,
           hits, subset, subset_fasta, long_out, hits_txt, metadata, calls,
           visualised, pc, env, svg, runs, thumb_vars, force_vars >>

----------------------------------------------------------------------------
(* Bounds *)

\* number of sequences in the input FASTA file
MaxSeqs == 2

\* number of matched rows that fail ribotyper's checks (FAIL without NoHits)
\* over all the reports of one run of the cascade
MaxFailRows == 2

\* number of data rows of a classifier report handed to the stage runner alone
MaxRows == 2

\* number of times organise_metadata is run over the same stage directories
MaxOrganise == 2

\* number of times draw is run over the same output folder
MaxRuns == 2

\* number of sequences in the input files of the runs over one output folder
MaxRerunSeqs == 1

\* the small numbers of nucleotide labels of an SVG document (the numbers
\* around the stroke-width limits are tried besides)
MaxSmall == 3

----------------------------------------------------------------------------
(* Text and files *)

Contains(s, kw) == \E i \in 1..Len(s) : s[i] = kw

Replace(s, old, new) == [i \in 1..Len(s) |-> IF s[i] = old THEN new ELSE s[i]]

\* position of the first atom of s, at or after position i, that is in set W (0 if none)
RECURSIVE FirstIn(_, _, _)
FirstIn(s, W, i) ==
    IF i > Len(s) THEN 0
    ELSE IF s[i] \in W THEN i
    ELSE FirstIn(s, W, i + 1)

\* str.split(sep): the list of fields of s
RECURSIVE Split(_, _)
Split(s, sep) ==
    LET k == FirstIn(s, {sep}, 1) IN
    IF k = 0 THEN << s >>
    ELSE << SubSeq(s, 1, k - 1) >> \o Split(SubSeq(s, k + 1, Len(s)), sep)

NoFile == [exists |-> FALSE, lines |-> <<>>]

File(ls) == [exists |-> TRUE, lines |-> ls]

Range(s) == { s[i] : i \in 1..Len(s) }

----------------------------------------------------------------------------
(* Inputs *)

\* sequence ids that may occur in an input file
IdPool == << <<"A">>, <<"B">>, <<"C">> >>

Whitespace == {" ", "\n", "\t"}

\* a header line: ">id description" or ">id"
HeaderLine(id) ==
    IF id = IdPool[1] THEN <<">">> \o id \o <<" ", "description", "\n">>
    ELSE <<">">> \o id \o <<"\n">>

RECURSIVE FastaOf(_)
FastaOf(ids) ==
    IF ids = <<>> THEN <<>>
    ELSE << HeaderLine(Head(ids)), <<"ACGU", "\n">> >> \o FastaOf(Tail(ids))

\* the input files: the first n ids of the pool, n = 0..MaxSeqs
FastaInputs ==
    { FastaOf(SubSeq(IdPool, 1, n)) : n \in 0..(IF MaxSeqs < Len(IdPool) THEN MaxSeqs ELSE Len(IdPool)) }

\* names a user may give the output folder
OutputFolders == { <<"out">>, <<"gtrnadb", "_run">>, <<"my", "crw">> }

\* the sequence names an external tool (ribotyper, esl-sfetch) finds in a FASTA file
TargetNames(fasta) ==
    { SubSeq(fasta[i], 2, FirstIn(fasta[i], Whitespace, 2) - 1) :
        i \in { j \in 1..Len(fasta) : fasta[j][1] = ">" } }

\* the ids of set S in file order
OrderedIds(S) == SelectSeq(IdPool, LAMBDA id : id \in S)

----------------------------------------------------------------------------
(* get_seq_ids *)

\* get_seq_ids with the pattern ">(.*?) ": only a blank ends the id
get_seq_ids_blank_only(input_fasta) ==
    { SubSeq(input_fasta[i], 2, FirstIn(input_fasta[i], {" "}, 2) - 1) :
        i \in { j \in 1..Len(input_fasta) :
                  /\ input_fasta[j][1] = ">"
                  /\ FirstIn(input_fasta[j], {" "}, 2) # 0 } }

get_seq_ids(input_fasta) ==
    { SubSeq(input_fasta[i], 2, FirstIn(input_fasta[i], Whitespace, 2) - 1) :
        i \in { j \in 1..Len(input_fasta) :
                  /\ input_fasta[j][1] = ">"
                  /\ FirstIn(input_fasta[j], Whitespace, 2) # 0 } }

----------------------------------------------------------------------------
(* Stage directories (draw, lines 222-228) *)

rfam_output == "rfam"
ribovision_ssu_output == "ribovision-ssu"
crw_output == "crw"
ribovision_lsu_output == "ribovision-lsu"
rnasep_output == "rnasep"
gtrnadb_output == "gtrnadb"
rfam_trna_output == "RF00005"

\* the cascade with the CRW block placed before the RiboVision SSU block
CascadeOrder_crw_first ==
    << rfam_output, crw_output, ribovision_ssu_output, ribovision_lsu_output,
       rnasep_output, gtrnadb_output, rfam_trna_output >>

\* the order in which draw runs the stages
CascadeOrder ==
    << rfam_output, ribovision_ssu_output, crw_output, ribovision_lsu_output,
       rnasep_output, gtrnadb_output, rfam_trna_output >>

Stages == Range(CascadeOrder)

\* the stages that run ribotyper through get_ribotyper_output
RibotyperStages ==
    { rfam_output, ribovision_ssu_output, crw_output, ribovision_lsu_output,
      rnasep_output }

\* the library tag each ribotyper stage passes to core.visualise
VisualiseTag(d) ==
    CASE d = rfam_output -> "rfam"
      [] d = ribovision_ssu_output -> "ssu"
      [] d = crw_output -> "crw"
      [] d = ribovision_lsu_output -> "lsu"
      [] d = rnasep_output -> "rnasep"

\* os.path.join(output_folder, d)
PathJoin(folder, d) == folder \o <<"/", d>>

----------------------------------------------------------------------------
(* The classifier report (<dir>.ribotyper.long.out): a line is a list of   *)
(* whitespace-separated fields; field 2 is the target, 3 is PASS/FAIL,     *)
(* 8 is the model, the last holds the unexpected features.                 *)

ReportRow(target, pf, model, features) ==
    << <<"idx">>, target, <<pf>>, <<"length">>, <<"fm">>, <<"fam">>,
       <<"domain">>, model, features >>

CommentLine ==
    << <<"#", "Column">>, <<"p/f:">>, <<"PASS">>, <<"or">>, <<"FAIL">> >>

PassRow(id) == ReportRow(id, "PASS", <<"tmplA">>, <<"-">>)
FailRow(id) == ReportRow(id, "FAIL", <<"tmplA">>, <<"*", "LowScore", ";">>)
NoHitsRow(id) == ReportRow(id, "FAIL", <<"-">>, <<"*", "NoHits", ";">>)
MultipleHitsRow(id) == ReportRow(id, "PASS", <<"tmplB">>, <<"MultipleHits", ":(2);">>)

\* a row cut short after its third field
TruncatedRow(id) == SubSeq(PassRow(id), 1, 3)

\* what the external tools may do in a run, besides working as documented:
\* ribotyper may fail, the renderer may fail, ribotyper may report two rows
\* for one sequence
Behaviours == { "classifier_fails", "renderer_fails", "several_rows" }

\* what ribotyper may report about one sequence
Outcomes(id) ==
    { << PassRow(id) >>, << FailRow(id) >>, << NoHitsRow(id) >> }
    \cup (IF "several_rows" \in env THEN { << PassRow(id), MultipleHitsRow(id) >> } ELSE {})

RECURSIVE ReportBodies(_)
ReportBodies(ids) ==
    IF ids = <<>> THEN { <<>> }
    ELSE { o \o rest : o \in Outcomes(Head(ids)), rest \in ReportBodies(Tail(ids)) }

\* the reports ribotyper may write for the sequences named in `input`
ClassifierReports(input) ==
    { << CommentLine >> \o body : body \in ReportBodies(OrderedIds(input)) }

\* the reports of a run that went wrong: a row is cut short
MalformedReports(input) ==
    { << CommentLine, TruncatedRow(id) >> : id \in input }

\* what a ribotyper run (os.system, line 45; its exit status is not looked
\* at) leaves behind: whether the stage directory was made, and the report.
\* A failed run leaves no report, or a malformed one.
ClassifierRuns(input) ==
    { [dir |-> TRUE, report |-> File(r)] : r \in ClassifierReports(input) }
    \cup (IF "classifier_fails" \in env
          THEN { [dir |-> b, report |-> NoFile] : b \in BOOLEAN }
               \cup { [dir |-> TRUE, report |-> File(r)] : r \in MalformedReports(input) }
          ELSE {})

----------------------------------------------------------------------------
(* get_ribotyper_output: the grep/awk pipeline that writes hits.txt *)

LineContains(line, kw) == \E f \in 1..Len(line) : Contains(line[f], kw)

\* grep '^#'
IsComment(line) == Len(line) >= 1 /\ Len(line[1]) >= 1 /\ line[1][1] = "#"

Field(line, k) == IF k <= Len(line) THEN line[k] ELSE <<>>

\* awk -v OFS='\t' '{print $2, $8, $3}'
Awk(line) == Field(line, 2) \o <<"\t">> \o Field(line, 8) \o <<"\t">> \o Field(line, 3) \o <<"\n">>

\* lines 52-56: grep -v '^#' | grep -v MultipleHits | grep PASS
StrictKeeps(line) ==
    /\ ~IsComment(line)
    /\ ~LineContains(line, "MultipleHits")
    /\ LineContains(line, "PASS")

\* the lenient filter without "grep -v NoHits"
LenientKeeps_nohits_too(line) == ~IsComment(line)

\* lines 58-62: grep -v '^#' | grep -v NoHits
LenientKeeps(line) ==
    /\ ~IsComment(line)
    /\ ~LineContains(line, "NoHits")

RECURSIVE MapAwk(_)
MapAwk(ls) == IF ls = <<>> THEN <<>> ELSE << Awk(Head(ls)) >> \o MapAwk(Tail(ls))

\* the hits.txt the pipeline writes from the report file into an existing
\* stage directory (an absent report gives an empty hits.txt: the shell
\* redirection creates it)
FilterReport(report, skip) ==
    IF ~report.exists THEN File(<<>>)
    ELSE IF ~skip THEN File(MapAwk(SelectSeq(report.lines, StrictKeeps)))
    ELSE File(MapAwk(SelectSeq(report.lines, LenientKeeps)))

\* the matched-but-failed rows of a report
FailRows(ls) == Len(SelectSeq(ls, LAMBDA line : ~IsComment(line) /\ Field(line, 3) = <<"FAIL">>
                                                 /\ ~LineContains(line, "NoHits")))

RECURSIVE FailRowsIn(_)
FailRowsIn(ds) ==
    IF ds = <<>> THEN 0 ELSE FailRows(long_out[Head(ds)].lines) + FailRowsIn(Tail(ds))

\* the report is looked for and never found
path_exists_never(d) == FALSE

\* line 44: os.path.exists(ribotyper_long_out)
path_exists(d) == long_out[d].exists

\* lines 35-64, on stage directory d with a FASTA file holding `input`;
\* dir tells whether the directory exists when the function is called.
\* Where there is no directory after the ribotyper run, the redirection
\* "> hits.txt" fails and no hits.txt is written.
get_ribotyper_output(d, input, dir) ==
    IF ~path_exists(d)
    THEN \E run \in ClassifierRuns(input) :
           /\ FailRowsIn(CascadeOrder) + FailRows(run.report.lines) <= MaxFailRows
           /\ long_out' = [long_out EXCEPT ![d] = run.report]
           /\ calls' = Append(calls, [stage |-> d, input |-> input, claimed |-> hits,
                                    rendered |-> Len(visualised)])
           /\ hits_txt' = [hits_txt EXCEPT ![d] =
                              IF dir \/ run.dir
                              THEN FilterReport(run.report, skip_ribovore_filters)
                              ELSE @]
    ELSE /\ UNCHANGED << long_out, calls >>
         /\ hits_txt' = [hits_txt EXCEPT ![d] =
                            FilterReport(long_out[d], skip_ribovore_filters)]

----------------------------------------------------------------------------
(* get_hits, get_subset_fasta *)

\* get_hits reading the template column instead of the id column
get_hits_wrong_column(folder) ==
    IF ~hits_txt[folder].exists THEN {}
    ELSE { Split(hits_txt[folder].lines[i], "\t")[2] : i \in 1..Len(hits_txt[folder].lines) }

\* get_hits counting a sequence only if the renderer wrote its diagram
get_hits_rendered_only(folder) ==
    IF ~hits_txt[folder].exists THEN {}
    ELSE { id \in { Split(hits_txt[folder].lines[i], "\t")[1] :
                      i \in 1..Len(hits_txt[folder].lines) } :
             \E e \in svg : e[2] = id }

\* lines 141-152
get_hits(folder) ==
    IF ~hits_txt[folder].exists THEN {}
    ELSE { Split(hits_txt[folder].lines[i], "\t")[1] : i \in 1..Len(hits_txt[folder].lines) }

\* lines 155-166: esl-sfetch extracts the named sequences from fasta_input
get_subset_fasta(fasta, seq_ids) == seq_ids \cap TargetNames(fasta)

\* the renderer handed the template id where the sequence id belongs
RenderCalls_swapped(tag, ls) ==
    [ i \in 1..Len(ls) |-> << tag, Split(ls[i], "\t")[2], Split(ls[i], "\t")[1] >> ]

\* the renderer calls of the loop "for line in f_ribotyper.readlines()"
RenderCalls(tag, ls) ==
    [ i \in 1..Len(ls) |-> << tag, Split(ls[i], "\t")[1], Split(ls[i], "\t")[2] >> ]

\* the lines the loop gets through: "rnacentral_id, model_id, _ =
\* line.split("\t")" raises ValueError on the first line that does not have
\* three fields
RECURSIVE Unpacked(_)
Unpacked(ls) ==
    IF ls = <<>> \/ Len(Split(Head(ls), "\t")) # 3 THEN <<>>
    ELSE << Head(ls) >> \o Unpacked(Tail(ls))

\* core.visualise (utils/core.py, the renderer interface): the diagrams the
\* renderer writes for a list of calls; a call that fails writes none and
\* returns
visualise(rcalls) ==
    LET wanted == { << rcalls[i][1], rcalls[i][2] >> : i \in 1..Len(rcalls) } IN
    IF "renderer_fails" \in env THEN SUBSET wanted ELSE { wanted }

\* the loop over the lines of <d>/hits.txt (lines 244-258, 573-585)
RenderLoop(tag, ls) ==
    \E written \in visualise(RenderCalls(tag, Unpacked(ls))) :
        /\ visualised' = visualised \o RenderCalls(tag, Unpacked(ls))
        /\ svg' = svg \cup written

----------------------------------------------------------------------------
(* organise_metadata *)

\* result_folders listed in the order the stages run
result_folders_cascade_order ==
    << rfam_output, ribovision_ssu_output, crw_output, ribovision_lsu_output,
       rnasep_output, gtrnadb_output, rfam_trna_output >>

\* the order of the list result_folders (draw, lines 365-373)
result_folders ==
    << crw_output, ribovision_ssu_output, ribovision_lsu_output, rfam_output,
       gtrnadb_output, rfam_trna_output, rnasep_output >>

\* lines 804-817: the label substitution on one line of <folder>/hits.txt
Relabel(folder, line) ==
    IF Contains(folder, "gtrnadb")
    THEN Replace(line, "PASS", "GtRNAdb")
    ELSE IF Contains(folder, "crw")
    THEN Replace(Replace(line, "PASS", "CRW"), "FAIL", "CRW")
    ELSE IF Contains(folder, "rfam") \/ Contains(folder, "RF00005")
    THEN Replace(Replace(line, "PASS", "Rfam"), "FAIL", "Rfam")
    ELSE IF Contains(folder, "ribovision-lsu") \/ Contains(folder, "ribovision-ssu")
    THEN Replace(Replace(line, "PASS", "RiboVision"), "FAIL", "RiboVision")
    ELSE IF Contains(folder, "rnasep")
    THEN Replace(Replace(line, "PASS", "RNAse P Database"), "FAIL", "RNAse P Database")
    ELSE line

\* lines 798-818: the lines written for one folder of the list
FolderRows(out, d) ==
    IF ~hits_txt[d].exists THEN <<>>
    ELSE [ i \in 1..Len(hits_txt[d].lines) |->
             Relabel(PathJoin(out, d), hits_txt[d].lines[i]) ]

RECURSIVE MetadataRows(_, _)
MetadataRows(out, folders) ==
    IF folders = <<>> THEN <<>>
    ELSE FolderRows(out, Head(folders)) \o MetadataRows(out, Tail(folders))

\* open(..., "a"): the rows are added to what the file holds
OpenForAppending(old, rows) == File(old.lines \o rows)

\* line 797: open(..., "w") truncates the file before the rows are written
OpenForWriting(old, rows) == File(rows)

organise_metadata(out, folders) ==
    metadata' = OpenForWriting(metadata, MetadataRows(out, folders))

----------------------------------------------------------------------------
(* draw *)

\* the difference forgotten: every stage is handed all ids
Unclaimed_everything(all, claimed) == all

\* line 262 and its repetitions: all_seq_ids.difference(hits)
Unclaimed(all, claimed) == all \ claimed

\* the claimed set replaced by the last stage's hits
hits_replaced(claimed, found) == found

\* line 261 and its repetitions: hits.union(get_hits(...))
hits_union(claimed, found) == claimed \cup found

\* the stage whose hits.txt is folded into hits before stage k runs
FoldedBefore(k) == CascadeOrder[k - 1]

LastStage == Len(CascadeOrder)

\* no call of generate_thumbnail is under way
NoThumbnail ==
    /\ image = <<>>
    /\ description = "none"
    /\ thumbnail = [status |-> "none"]

\* no template is forced
NoForce ==
    /\ force_template = <<>>
    /\ forced = {}

\* draw about to start in a fresh output folder, with external tools that
\* may behave as `behaviours` says
InitDraw(behaviours, inputs) ==
    /\ fasta_input \in inputs
    /\ output_folder = <<"out">>
    /\ skip_ribovore_filters \in BOOLEAN
    /\ all_seq_ids = {}
    /\ hits = {}
    /\ subset = {}
    /\ subset_fasta = {}
    /\ long_out = [d \in Stages |-> NoFile]
    /\ hits_txt = [d \in Stages |-> NoFile]
    /\ metadata = NoFile
    /\ calls = <<>>
    /\ visualised = <<>>
    /\ pc = <<"start", 0>>
    /\ env = behaviours
    /\ svg = {}
    /\ runs = 1
    /\ NoThumbnail
    /\ NoForce

Init == InitDraw({}, FastaInputs)

\* an uncaught exception ended draw while stage k was running
Aborted(k) == <<"aborted", k>>

\* lines 206-233: read the ids, empty the claimed set, copy the input
Start ==
    /\ pc = <<"start", 0>>
    /\ all_seq_ids' = get_seq_ids(fasta_input)
    /\ IF force_template # <<>>
       THEN /\ pc' = IF all_seq_ids' = {} THEN <<"done", 0>> ELSE <<"force", 0>>
            /\ UNCHANGED << hits, subset_fasta >>
       ELSE /\ hits' = {}
            /\ subset_fasta' = TargetNames(fasta_input)
            /\ pc' = <<"run", 1>>
    /\ UNCHANGED << fasta_input, output_folder, skip_ribovore_filters, subset,
                    long_out, hits_txt, metadata, calls, visualised, svg,
                    other_vars >>

\* lines 235-258: the Rfam stage, run on the whole input.  draw does not
\* make the stage directory: it is there if an earlier run left it or if
\* ribotyper makes it.  open() of a hits.txt that is not there raises.
Rfam ==
    /\ pc = <<"run", 1>>
    /\ get_ribotyper_output(rfam_output, TargetNames(fasta_input),
                            hits_txt[rfam_output].exists)
    /\ IF hits_txt'[rfam_output].exists
       THEN /\ RenderLoop("rfam", hits_txt'[rfam_output].lines)
            /\ pc' = IF Unpacked(hits_txt'[rfam_output].lines) = hits_txt'[rfam_output].lines
                     THEN <<"fold", 2>> ELSE Aborted(1)
       ELSE /\ UNCHANGED << visualised, svg >>
            /\ pc' = Aborted(1)
    /\ UNCHANGED << fasta_input, output_folder, skip_ribovore_filters,
                    all_seq_ids, hits, subset, subset_fasta, metadata,
                    other_vars >>

\* lines 261-263, 277-279, ...: fold the previous stage's hits, recompute subset
Fold(k) ==
    /\ pc = <<"fold", k>>
    /\ hits' = hits_union(hits, get_hits(FoldedBefore(k)))
    /\ subset' = Unclaimed(all_seq_ids, hits')
    /\ pc' = IF subset' # {} THEN <<"run", k>>
             ELSE IF k < LastStage THEN <<"fold", k + 1>>
             ELSE <<"organise", 0>>
    /\ UNCHANGED << fasta_input, output_folder, skip_ribovore_filters,
                    all_seq_ids, subset_fasta, long_out, hits_txt, metadata,
                    calls, visualised, svg, other_vars >>

\* a ribotyper stage run through ctx.invoke on subset.fasta
\* (ribovision_draw_ssu, rrna_draw, ribovision_draw_lsu, rnasep_draw); each
\* makes its directory first (mkdir -p)
StageDraw(k) ==
    /\ pc = <<"run", k>>
    /\ subset_fasta' = get_subset_fasta(fasta_input, subset)
    /\ get_ribotyper_output(CascadeOrder[k], subset_fasta', TRUE)
    /\ RenderLoop(VisualiseTag(CascadeOrder[k]), hits_txt'[CascadeOrder[k]].lines)
    /\ pc' = IF Unpacked(hits_txt'[CascadeOrder[k]].lines) = hits_txt'[CascadeOrder[k]].lines
             THEN <<"fold", k + 1>> ELSE Aborted(k)
    /\ UNCHANGED << fasta_input, output_folder, skip_ribovore_filters,
                    all_seq_ids, hits, subset, metadata, other_vars >>

ribovision_draw_ssu == StageDraw(2)

rrna_draw == StageDraw(3)

ribovision_draw_lsu == StageDraw(4)

rnasep_draw == StageDraw(5)

\* a hits.txt line written by a tRNA classifier
TrnaLine(id, model) == id \o <<"\t">> \o model \o <<"\t", "PASS", "\n">>

TrnaLines(ids, model) == [ i \in 1..Len(ids) |-> TrnaLine(ids[i], model) ]

\* gtrnadb.classify_trna_sequences (utils/gtrnadb.py, the classifier interface):
\* classifies some of the sequences it is given, lists them in gtrnadb/hits.txt
classify_trna_sequences(input, found) ==
    /\ found \in SUBSET input
    /\ hits_txt' = [hits_txt EXCEPT ![gtrnadb_output] =
                       File(TrnaLines(OrderedIds(found), <<"E_Thr">>))]
    /\ calls' = Append(calls, [stage |-> gtrnadb_output, input |-> input,
                              claimed |-> hits, rendered |-> Len(visualised)])

\* lines 327-344
GtRNAdb ==
    /\ pc = <<"run", 6>>
    /\ subset_fasta' = get_subset_fasta(fasta_input, subset)
    /\ \E found \in SUBSET subset_fasta' :
         /\ classify_trna_sequences(subset_fasta', found)
         /\ LET rcalls == [ i \in 1..Len(OrderedIds(found)) |->
                            << "gtrnadb", OrderedIds(found)[i], <<"None">> >> ] IN
            \E written \in visualise(rcalls) :
               /\ visualised' = visualised \o rcalls
               /\ svg' = svg \cup written
    /\ pc' = <<"fold", 7>>
    /\ UNCHANGED << fasta_input, output_folder, skip_ribovore_filters,
                    all_seq_ids, hits, subset, long_out, metadata, other_vars >>

\* rfam.cmsearch_nohmm_mode (utils/rfam.py, the classifier interface): finds
\* some of the sequences it is given, lists them in RF00005/hits.txt
cmsearch_nohmm_mode(input, found) ==
    /\ found \in SUBSET input
    /\ hits_txt' = [hits_txt EXCEPT ![rfam_trna_output] =
                       File(TrnaLines(OrderedIds(found), <<"RF00005">>))]
    /\ calls' = Append(calls, [stage |-> rfam_trna_output, input |-> input,
                              claimed |-> hits, rendered |-> Len(visualised)])

\* lines 349-362
RfamTRNA ==
    /\ pc = <<"run", 7>>
    /\ \E found \in SUBSET get_subset_fasta(fasta_input, subset) :
         /\ cmsearch_nohmm_mode(get_subset_fasta(fasta_input, subset), found)
         /\ subset_fasta' = IF found # {} THEN get_subset_fasta(fasta_input, found)
                            ELSE get_subset_fasta(fasta_input, subset)
         /\ LET rcalls == [ i \in 1..Len(OrderedIds(found)) |->
                            << "RF00005", OrderedIds(found)[i], <<"RF00005">> >> ] IN
            \E written \in visualise(rcalls) :
               /\ visualised' = visualised \o rcalls
               /\ svg' = svg \cup written
    /\ pc' = <<"organise", 0>>
    /\ UNCHANGED << fasta_input, output_folder, skip_ribovore_filters,
                    all_seq_ids, hits, subset, long_out, metadata, other_vars >>

\* lines 364-379: organise the results, aggregate the metadata, clean up
Organise ==
    /\ pc = <<"organise", 0>>
    /\ organise_metadata(output_folder, result_folders)
    /\ subset_fasta' = {}
    /\ pc' = <<"done", 0>>
    /\ UNCHANGED << fasta_input, output_folder, skip_ribovore_filters,
                    all_seq_ids, hits, subset, long_out, hits_txt, calls,
                    visualised, svg, other_vars >>

Next ==
    \/ Start
    \/ Rfam
    \/ \E k \in 2..LastStage : Fold(k)
    \/ ribovision_draw_ssu
    \/ rrna_draw
    \/ ribovision_draw_lsu
    \/ rnasep_draw
    \/ GtRNAdb
    \/ RfamTRNA
    \/ Organise

Spec == Init /\ [][Next]_vars

----------------------------------------------------------------------------
(* draw with a ribotyper that may fail: it leaves no report (with or       *)
(* without having made its directory) or a report with a row cut short.    *)

InitClassifierFault == InitDraw({"classifier_fails"}, FastaInputs)

SpecClassifierFault == InitClassifierFault /\ [][Next]_vars

----------------------------------------------------------------------------
(* draw with a renderer that may fail on any of its calls.                 *)

InitRendererFault == InitDraw({"renderer_fails"}, FastaInputs)

SpecRendererFault == InitRendererFault /\ [][Next]_vars

----------------------------------------------------------------------------
(* draw with a ribotyper whose report may hold two rows for one sequence:  *)
(* a PASS row and a row flagged MultipleHits.                              *)

InitSeveralRows == InitDraw({"several_rows"}, FastaInputs)

SpecSeveralRows == InitSeveralRows /\ [][Next]_vars

----------------------------------------------------------------------------
(* draw run again over the output folder of a finished run, with the same  *)
(* or another input file and the same or the other filter policy.          *)

\* the input files of these runs: the first n ids of the pool
RerunInputs ==
    { FastaOf(SubSeq(IdPool, 1, n)) :
        n \in 0..(IF MaxRerunSeqs < Len(IdPool) THEN MaxRerunSeqs ELSE Len(IdPool)) }

\* the first run uses the strict policy
InitRerun ==
    /\ InitDraw({}, RerunInputs)
    /\ ~skip_ribovore_filters

Rerun ==
    /\ pc = <<"done", 0>>
    /\ runs < MaxRuns
    /\ runs' = runs + 1
    /\ fasta_input' \in RerunInputs
    /\ skip_ribovore_filters' \in BOOLEAN
    /\ pc' = <<"start", 0>>
    /\ UNCHANGED << output_folder, all_seq_ids, hits, subset, subset_fasta,
                    long_out, hits_txt, metadata, calls, visualised, env, svg,
                    thumb_vars, force_vars >>

NextRerun ==
    \/ Next
    \/ Rerun

SpecRerun == InitRerun /\ [][NextRerun]_vars

----------------------------------------------------------------------------
(* draw --force_template: force_draw (lines 831-929) for every sequence of *)
(* the input, each appending its row to metadata.tsv.                      *)

\* template ids a user may force
ForceTemplates ==
    { <<"RF00162">>, <<"d.16.b.E.coli">>, <<"EC_SSU_3D">>, <<"EC_LSU_3D">>,
      <<"RNAseP_a_A">>, <<"E", "_", "Thr">>, <<"no_such_model">> }

\* lm.get_model_type (utils/list_models.py, the template catalogue): the
\* library a template id belongs to, "None" for an unknown id
get_model_type(model_id) ==
    CASE model_id = <<"RF00162">> -> "rfam"
      [] model_id = <<"d.16.b.E.coli">> -> "crw"
      [] model_id = <<"EC_SSU_3D">> -> "ribovision_ssu"
      [] model_id = <<"EC_LSU_3D">> -> "ribovision_lsu"
      [] model_id = <<"RNAseP_a_A">> -> "rnasep"
      [] model_id = <<"E", "_", "Thr">> -> "gtrnadb"
      [] OTHER -> "None"

\* line 850: model_type.replace("_", "-")
Dashed(model_type) ==
    CASE model_type = "ribovision_ssu" -> "ribovision-ssu"
      [] model_type = "ribovision_lsu" -> "ribovision-lsu"
      [] OTHER -> model_type

\* lines 852-911: the tag handed to the renderer
ForceTag(model_type) ==
    CASE model_type = "ribovision_ssu" -> "ssu"
      [] model_type = "ribovision_lsu" -> "lsu"
      [] OTHER -> model_type

\* lines 917-924
label_mapping(model_type) ==
    CASE model_type = "crw" -> "CRW"
      [] model_type = "gtrnadb" -> "GtRNAdb"
      [] model_type = "rfam" -> "Rfam"
      [] model_type = "ribovision_ssu" -> "RiboVision"
      [] model_type = "ribovision_lsu" -> "RiboVision"
      [] model_type = "rnasep" -> "RNAse P database"

\* lines 925-929: open(..., "a") and write one line
AppendLine(old, line) == File(old.lines \o << line >>)

\* lines 831-929, for one sequence.  gtrnadb.visualise is handed the domain
\* and the isotype of the template and the whole input file.
force_draw(model_id, seq_id) ==
    LET model_type == get_model_type(model_id) IN
    IF model_type = "None"
    THEN UNCHANGED << visualised, svg, metadata >>
    ELSE /\ LET rcalls == IF model_type = "gtrnadb"
                          THEN << << "gtrnadb", <<"fasta_input">>, Split(model_id, "_") >> >>
                          ELSE << << ForceTag(model_type), seq_id, model_id >> >> IN
            \E written \in visualise(rcalls) :
               /\ visualised' = visualised \o rcalls
               /\ svg' = svg \cup written
         /\ metadata' = AppendLine(metadata,
                seq_id \o <<"\t">> \o model_id \o << "\t", label_mapping(model_type), "\n" >>)

\* rows an earlier run may have left in metadata.tsv
InitForce ==
    /\ fasta_input \in FastaInputs
    /\ output_folder = <<"out">>
    /\ skip_ribovore_filters = FALSE
    /\ all_seq_ids = {}
    /\ hits = {}
    /\ subset = {}
    /\ subset_fasta = {}
    /\ long_out = [d \in Stages |-> NoFile]
    /\ hits_txt = [d \in Stages |-> NoFile]
    /\ metadata \in { NoFile, File(<< TrnaLine(<<"old">>, <<"E_Thr">>) >>) }
    /\ calls = <<>>
    /\ visualised = <<>>
    /\ pc = <<"start", 0>>
    /\ env = {}
    /\ svg = {}
    /\ runs = 1
    /\ NoThumbnail
    /\ force_template \in ForceTemplates
    /\ forced = {}

\* lines 208-219: one turn of "for seq_id in all_seq_ids" (a set: any order)
ForceDraw ==
    /\ pc = <<"force", 0>>
    /\ \E seq_id \in all_seq_ids \ forced :
         /\ force_draw(force_template, seq_id)
         /\ forced' = forced \cup { seq_id }
    /\ pc' = IF forced' = all_seq_ids THEN <<"done", 0>> ELSE <<"force", 0>>
    /\ UNCHANGED << fasta_input, output_folder, skip_ribovore_filters,
                    all_seq_ids, hits, subset, subset_fasta, long_out,
                    hits_txt, calls, env, runs, thumb_vars, force_template >>

NextForce ==
    \/ Start
    \/ ForceDraw

SpecForce == InitForce /\ [][NextForce]_vars

----------------------------------------------------------------------------
(* A ribotyper stage run on its own (the "crw draw" command, rrna_draw) in *)
(* a stage directory that already holds a report.                          *)

StandaloneIds == { <<"seq1">>, <<"seq2">>, <<"my", "PASS", "seq">> }

StandaloneRows ==
    UNION { { PassRow(id), FailRow(id), NoHitsRow(id), MultipleHitsRow(id) } :
              id \in StandaloneIds }

RECURSIVE RowSeqs(_)
RowSeqs(n) ==
    IF n = 0 THEN { <<>> }
    ELSE RowSeqs(n - 1) \cup
         { Append(rs, r) : rs \in { x \in RowSeqs(n - 1) : Len(x) = n - 1 },
                           r \in StandaloneRows }

StandaloneReports == { << CommentLine >> \o rs : rs \in RowSeqs(MaxRows) }

InitStandalone ==
    /\ fasta_input = <<>>
    /\ output_folder = <<"out">>
    /\ skip_ribovore_filters \in BOOLEAN
    /\ all_seq_ids = {}
    /\ hits = {}
    /\ subset = {}
    /\ subset_fasta = {}
    /\ \E report \in StandaloneReports :
         long_out = [d \in Stages |-> IF d = crw_output THEN File(report) ELSE NoFile]
    /\ hits_txt = [d \in Stages |-> NoFile]
    /\ metadata = NoFile
    /\ calls = <<>>
    /\ visualised = <<>>
    /\ pc = <<"standalone", 0>>
    /\ env = {}
    /\ svg = {}
    /\ runs = 1
    /\ NoThumbnail
    /\ NoForce

\* lines 560-585
StandaloneDraw ==
    /\ pc = <<"standalone", 0>>
    /\ get_ribotyper_output(crw_output, TargetNames(fasta_input), TRUE)
    /\ RenderLoop("crw", hits_txt'[crw_output].lines)
    /\ pc' = IF Unpacked(hits_txt'[crw_output].lines) = hits_txt'[crw_output].lines
             THEN <<"done", 0>> ELSE Aborted(3)
    /\ UNCHANGED << fasta_input, output_folder, skip_ribovore_filters,
                    all_seq_ids, hits, subset, subset_fasta, metadata, other_vars >>

NextStandalone == StandaloneDraw

SpecStandalone == InitStandalone /\ [][NextStandalone]_vars

----------------------------------------------------------------------------
(* organise_metadata run, once or repeatedly, over stage directories left  *)
(* by a cascade: every stage lists its own sequences.                      *)

StageSeqId(d) == <<"seq_", d>>

StageHits(d) ==
    IF d \in RibotyperStages
    THEN { NoFile,
           File(<< Awk(PassRow(StageSeqId(d))) >>),
           File(<< Awk(FailRow(StageSeqId(d))) >>) }
    ELSE { NoFile, File(<< TrnaLine(StageSeqId(d), <<"tmplT">>) >>) }

InitMetadata ==
    /\ fasta_input = <<>>
    /\ output_folder \in OutputFolders
    /\ skip_ribovore_filters = TRUE
    /\ all_seq_ids = {}
    /\ hits = {}
    /\ subset = {}
    /\ subset_fasta = {}
    /\ long_out = [d \in Stages |-> NoFile]
    /\ \E h1 \in StageHits(CascadeOrder[1]), h2 \in StageHits(CascadeOrder[2]),
          h3 \in StageHits(CascadeOrder[3]), h4 \in StageHits(CascadeOrder[4]),
          h5 \in StageHits(CascadeOrder[5]), h6 \in StageHits(CascadeOrder[6]),
          h7 \in StageHits(CascadeOrder[7]) :
         hits_txt = [d \in Stages |->
                       LET h == << h1, h2, h3, h4, h5, h6, h7 >> IN
                       h[CHOOSE k \in 1..LastStage : CascadeOrder[k] = d]]
    /\ metadata = NoFile
    /\ calls = <<>>
    /\ visualised = <<>>
    /\ pc = <<"metadata", 0>>
    /\ env = {}
    /\ svg = {}
    /\ runs = 1
    /\ NoThumbnail
    /\ NoForce

\* lines 791-818, called again over the same directories
OrganiseAgain ==
    /\ pc[1] = "metadata"
    /\ pc[2] < MaxOrganise
    /\ organise_metadata(output_folder, result_folders)
    /\ pc' = <<"metadata", pc[2] + 1>>
    /\ UNCHANGED << fasta_input, output_folder, skip_ribovore_filters,
                    all_seq_ids, hits, subset, subset_fasta, long_out,
                    hits_txt, calls, visualised, svg, other_vars >>

NextMetadata == OrganiseAgain

SpecMetadata == InitMetadata /\ [][NextMetadata]_vars

----------------------------------------------------------------------------
(* generate_thumbnail (lines 753-788).  An SVG document is a sequence of   *)
(* lines, a line a sequence of elements: an attribute name="value" or a    *)
(* <text x=".." y=".." class="..">..</text> block.  A coordinate is a      *)
(* record of its integer part and its decimals.                            *)

Attr(name, value) == [tag |-> "attr", name |-> name, value |-> value]

Coord(n, decimals) == [int |-> n, frac |-> decimals]

TextBlock(x, y, class) == [tag |-> "text", x |-> x, y |-> y, class |-> class]

\* the i-th nucleotide label of a generated document
Nucleotide(i) ==
    TextBlock(Coord(i, IF i % 2 = 0 THEN ".5" ELSE ""), Coord(i + 7, ".25"), "green")

\* a position number drawn beside the diagram
NumberingLabel(i) == TextBlock(Coord(i, ""), Coord(i, ""), "numbering-label")

\* the limits of the stroke-width ladder (lines 771, 773, 775)
StrokeLimit1 == 200
StrokeLimit2 == 500
StrokeLimit3 == 3000

PointCounts ==
    (0..MaxSmall) \cup UNION { { l - 1, l, l + 1 } :
                                 l \in { StrokeLimit1, StrokeLimit2, StrokeLimit3 } }

Layouts == { "plain", "styled", "bare", "two_lines" }

HeaderLine_svg == << Attr("width", "100.5"), Attr("height", "50") >>

\* a line of nucleotide labels from..to, with numbering labels around them
TextLine(from, to, numbered) ==
    (IF numbered THEN << NumberingLabel(from) >> ELSE <<>>)
    \o [ i \in 1..(to - from + 1) |-> Nucleotide(from + i - 1) ]
    \o (IF numbered THEN << NumberingLabel(to) >> ELSE <<>>)

\* the documents tried: n nucleotide labels
Document(n, numbered, layout) ==
    CASE layout = "plain" -> << HeaderLine_svg, TextLine(1, n, numbered) >>
      [] layout = "styled" ->
            << HeaderLine_svg, << Attr("stroke-width", "9") >>, TextLine(1, n, numbered) >>
      [] layout = "bare" -> << TextLine(1, n, numbered) >>
      [] layout = "two_lines" ->
            << HeaderLine_svg, TextLine(1, n \div 2, numbered),
               TextLine(n \div 2 + 1, n, numbered) >>

Images ==
    { Document(n, numbered, layout) :
        n \in PointCounts, numbered \in BOOLEAN, layout \in Layouts }

Descriptions == { "out/rfam/A.colored.svg", "out/crw/B.colored.svg" }

\* the attribute e holds the text name=: stroke-width= holds width= too
Holds(e, name) ==
    /\ e.tag = "attr"
    /\ (e.name = name \/ (name = "width" /\ e.name = "stroke-width"))

\* "name" in line
InLine(line, name) == \E i \in 1..Len(line) : Holds(line[i], name)

\* re.findall(r'name="(\d+(\.\d+)?)"', line)
FindAll(line, name) ==
    LET found == SelectSeq(line, LAMBDA e : Holds(e, name))
    IN  [ i \in 1..Len(found) |-> found[i].value ]

Unbound == << "unbound" >>

\* lines 759-762: the value the loop leaves in width (or in height): that of
\* the last line that assigns it
LastFound(lines, name) ==
    LET assigning == { i \in 1..Len(lines) :
                         /\ InLine(lines[i], name)
                         /\ name = "width" => ~InLine(lines[i], "stroke-width") }
    IN  IF assigning = {} THEN Unbound
        ELSE FindAll(lines[CHOOSE i \in assigning : \A j \in assigning : j <= i], name)

\* the text blocks of a line that are recorded, numbering labels included
Recorded_with_numbering(line) ==
    SelectSeq(line, LAMBDA e : e.tag = "text")

\* lines 763-767: the text blocks of a line that are recorded
Recorded(line) ==
    SelectSeq(line, LAMBDA e : e.tag = "text" /\ e.class # "numbering-label")

\* the recorded text blocks of the document, in document order
RECURSIVE Blocks(_)
Blocks(lines) ==
    IF lines = <<>> THEN <<>> ELSE Recorded(Head(lines)) \o Blocks(Tail(lines))

\* line 770: points, one "L<x> <y>" for every recorded block
Points(blocks) == [ i \in 1..Len(blocks) |-> << "L", blocks[i].x.int, blocks[i].y.int >> ]

\* the ladder with <= in place of <
StrokeWidth_inclusive(n) ==
    IF n <= StrokeLimit1 THEN "3"
    ELSE IF n <= StrokeLimit2 THEN "4"
    ELSE IF n <= StrokeLimit3 THEN "4"
    ELSE "2"

\* lines 771-778
StrokeWidth(n) ==
    IF n < StrokeLimit1 THEN "3"
    ELSE IF n < StrokeLimit2 THEN "4"
    ELSE IF n < StrokeLimit3 THEN "4"
    ELSE "2"

\* ColorHash(description).hex: a colour fixed by the description
ColorHash(text) == << "hex", text >>

Raised(error) == [status |-> "raised", error |-> error]

\* lines 753-788: what the call gives, a thumbnail or an exception
generate_thumbnail(lines, text) ==
    LET blocks == Blocks(lines)
        points == Points(blocks)
        width  == LastFound(lines, "width")
        height == LastFound(lines, "height")
    IN  IF width = Unbound \/ height = Unbound THEN Raised("UnboundLocalError")
        ELSE IF width = <<>> \/ height = <<>> THEN Raised("IndexError")
        ELSE IF blocks = <<>> THEN Raised("TypeError")
        ELSE [ status |-> "returned",
               width |-> width[1],
               height |-> height[1],
               color |-> ColorHash(text),
               stroke_width |-> StrokeWidth(Len(points)),
               d |-> << << "M", blocks[1].x.int, blocks[1].y.int >> >> \o points ]

InitThumbnail ==
    /\ fasta_input = <<>>
    /\ output_folder = <<"out">>
    /\ skip_ribovore_filters = FALSE
    /\ all_seq_ids = {}
    /\ hits = {}
    /\ subset = {}
    /\ subset_fasta = {}
    /\ long_out = [d \in Stages |-> NoFile]
    /\ hits_txt = [d \in Stages |-> NoFile]
    /\ metadata = NoFile
    /\ calls = <<>>
    /\ visualised = <<>>
    /\ pc = <<"thumbnail", 0>>
    /\ env = {}
    /\ svg = {}
    /\ runs = 1
    /\ NoForce
    /\ image \in Images
    /\ description \in Descriptions
    /\ thumbnail = [status |-> "none"]

\* the call at line 402
GenerateThumbnail ==
    /\ pc = <<"thumbnail", 0>>
    /\ thumbnail' = generate_thumbnail(image, description)
    /\ pc' = <<"thumbnail", 1>>
    /\ UNCHANGED << fasta_input, output_folder, skip_ribovore_filters,
                    all_seq_ids, hits, subset, subset_fasta, long_out,
                    hits_txt, metadata, calls, visualised, env, svg, runs,
                    image, description, force_vars >>

NextThumbnail == GenerateThumbnail

SpecThumbnail == InitThumbnail /\ [][NextThumbnail]_vars

----------------------------------------------------------------------------
(* Properties *)

\* the ids listed in a stage's hit list
ListedIds(d) ==
    IF ~hits_txt[d].exists THEN {}
    ELSE { Split(hits_txt[d].lines[i], "\t")[1] : i \in 1..Len(hits_txt[d].lines) }

\* the ids of the input file
InputIds == TargetNames(fasta_input)

\* the priority order of the stages: Rfam, RiboVision SSU, CRW, RiboVision LSU,
\* RNase P, GtRNAdb, Rfam tRNA
PriorityOrder ==
    << "rfam", "ribovision-ssu", "crw", "ribovision-lsu", "rnasep", "gtrnadb", "RF00005" >>

Rank(d) == CHOOSE k \in 1..Len(PriorityOrder) : PriorityOrder[k] = d

Done == pc = <<"done", 0>>

\* the stage that lists the sequence of a metadata row
RowStage(row) == CHOOSE d \in Stages : Split(row, "\t")[1] \in ListedIds(d)

\* C1: in a run of the cascade over a fresh output directory no sequence id is
\* listed in the hit lists of two different stages.
C1_AtMostOneStage ==
    LET listed == [d \in Stages |-> ListedIds(d)] IN
    \A d1, d2 \in Stages : d1 # d2 => listed[d1] \cap listed[d2] = {}

C1_Witness ==
    /\ Done
    /\ \E d1, d2 \in Stages : d1 # d2 /\ ListedIds(d1) # {} /\ ListedIds(d2) # {}

\* C2: when the cascade is done, the ids claimed by the stages together with
\* the unclaimed remainder (all_seq_ids minus hits) are exactly the input ids.
C2_Partition ==
    Done => UNION { ListedIds(d) : d \in Stages } \cup (all_seq_ids \ hits) = InputIds

C2_Witness ==
    /\ Done
    /\ UNION { ListedIds(d) : d \in Stages } # {}
    /\ all_seq_ids \ hits # {}
    /\ Cardinality(InputIds) >= 2

\* C3: every classifier invocation is made on the input ids minus the ids
\* listed by the stages that precede it in the cascade; the first on all ids.
C3_StageInput ==
    LET listed == [k \in 1..Len(PriorityOrder) |-> ListedIds(PriorityOrder[k])] IN
    \A i \in 1..Len(calls) :
        calls[i].input =
            InputIds \ UNION { listed[k] : k \in 1..(Rank(calls[i].stage) - 1) }

C3_Witness ==
    /\ Len(calls) >= 3
    /\ calls[1].input = InputIds
    /\ calls[2].input # InputIds
    /\ calls[3].input # {}
    /\ ListedIds(calls[1].stage) # {}

\* C4: once the working set (all_seq_ids minus hits) is empty, no step of the
\* cascade invokes a classifier.
C4_ShortCircuit ==
    [][ (pc # <<"start", 0>> /\ all_seq_ids \ hits = {}) => calls' = calls ]_vars

\* C5: every classifier invocation, the first included, is made with a
\* non-empty set of sequences.
C5_NeverEmptyInput ==
    \A i \in 1..Len(calls) : calls[i].input # {}

\* C6: the classifiers are invoked in strictly increasing priority order (so
\* none twice), and at each invocation the hit lists of all stages of higher
\* priority are already folded into the claimed set.
C6_StageOrder ==
    LET listed == [k \in 1..Len(PriorityOrder) |-> ListedIds(PriorityOrder[k])] IN
    \A i \in 1..Len(calls) :
        /\ \A j \in 1..(i - 1) : Rank(calls[j].stage) < Rank(calls[i].stage)
        /\ \A k \in 1..(Rank(calls[i].stage) - 1) : listed[k] \subseteq calls[i].claimed

C6_Witness ==
    /\ Done
    /\ Len(calls) = Len(PriorityOrder)
    /\ hits # {}

\* C7 (as stated): in metadata.tsv the rows of a stage of higher priority all
\* precede the rows of every stage of lower priority.
C7_RowsInPriorityOrder ==
    Done =>
        \A i, j \in 1..Len(metadata.lines) :
            i < j => Rank(RowStage(metadata.lines[i])) <= Rank(RowStage(metadata.lines[j]))

\* the order of the rows of metadata.tsv: CRW, RiboVision SSU, RiboVision LSU,
\* Rfam, GtRNAdb, Rfam tRNA, RNase P
MetadataOrder ==
    << "crw", "ribovision-ssu", "ribovision-lsu", "rfam", "gtrnadb", "RF00005", "rnasep" >>

MetadataRank(d) == CHOOSE k \in 1..Len(MetadataOrder) : MetadataOrder[k] = d

\* C7 (amended): in metadata.tsv the rows are grouped by stage in the fixed
\* order CRW, RiboVision SSU, RiboVision LSU, Rfam, GtRNAdb, Rfam tRNA, RNase P.
C7_RowsInResultFoldersOrder ==
    Done =>
        \A i, j \in 1..Len(metadata.lines) :
            i < j => MetadataRank(RowStage(metadata.lines[i]))
                       <= MetadataRank(RowStage(metadata.lines[j]))

C7_Witness ==
    /\ Done
    /\ \E i, j \in 1..Len(metadata.lines) :
         /\ i < j
         /\ RowStage(metadata.lines[i]) = "crw"
         /\ RowStage(metadata.lines[j]) = "rfam"

\* C8: every row of the CRW stage, PASS or FAIL, is written to the metadata
\* with the label CRW in its third column.
C8_CrwRowsLabelledCRW ==
    metadata.exists =>
        \A i \in 1..Len(metadata.lines) :
            Split(metadata.lines[i], "\t")[1] = StageSeqId("crw")
                => Split(metadata.lines[i], "\t")[3] = <<"CRW", "\n">>

\* C9: running organise_metadata again over unchanged hit lists leaves
\* metadata.tsv as the previous run wrote it.
C9_Idempotent ==
    [][ (pc[1] = "metadata" /\ metadata.exists) => metadata' = metadata ]_vars

C9_Witness ==
    /\ pc = <<"metadata", 2>>
    /\ Len(metadata.lines) >= 2

\* the reference filter: by the status column and the feature flags of a row
ReferenceKeeps(line) ==
    /\ ~IsComment(line)
    /\ IF ~skip_ribovore_filters
       THEN Field(line, 3) = <<"PASS">> /\ ~Contains(Field(line, 9), "MultipleHits")
       ELSE ~Contains(Field(line, 9), "NoHits")

\* C10: the hit list holds exactly the rows of the report that the reference
\* filter of the selected policy retains, in report order.
C10_ReferenceFilter ==
    Done => hits_txt["crw"].lines = MapAwk(SelectSeq(long_out["crw"].lines, ReferenceKeeps))

\* a ribotyper run on stage d that failed: it left no report, or a report
\* with a data row that does not have all its fields
FailedRun(d) ==
    /\ d \in RibotyperStages
    /\ \E i \in 1..Len(calls) : calls[i].stage = d
    /\ \/ ~long_out[d].exists
       \/ \E i \in 1..Len(long_out[d].lines) :
            /\ ~IsComment(long_out[d].lines[i])
            /\ Len(long_out[d].lines[i]) < 9

\* C11: a failed classifier run does not end the cascade, and the stage it
\* belongs to lists no hits (so that the following stages are handed every
\* sequence not claimed before it).
C11_FailureRecoverable ==
    /\ pc[1] # "aborted"
    /\ \A d \in Stages : FailedRun(d) => ListedIds(d) = {}

\* the stage that passes a tag to the renderer
StageOfTag(tag) ==
    CASE tag = "ssu" -> "ribovision-ssu"
      [] tag = "lsu" -> "ribovision-lsu"
      [] OTHER -> tag

\* the renderer calls that failed: no diagram was written
FailedRenders == { i \in 1..Len(visualised) :
                     << visualised[i][1], visualised[i][2] >> \notin svg }

RECURSIVE Qualifying(_)
Qualifying(lines) ==
    IF lines = <<>> THEN <<>>
    ELSE SelectSeq(Head(lines), LAMBDA e : e.tag = "text" /\ e.class # "numbering-label")
         \o Qualifying(Tail(lines))

Called == pc = <<"thumbnail", 1>>

\* C13: on a document with no nucleotide label generate_thumbnail raises
\* nothing and returns a thumbnail whose path has no point.
C13_EmptyDocumentReturns ==
    (Called /\ Qualifying(image) = <<>>) =>
        /\ thumbnail.status = "returned"
        /\ \A i \in 1..Len(thumbnail.d) : thumbnail.d[i][1] # "L"

\* the stroke width by the number of points: below 200 it is 3, from 200 and
\* below 3000 it is 4, from 3000 on it is 2
LadderWidth(n) ==
    IF n < 200 THEN "3"
    ELSE IF n < 500 THEN "4"
    ELSE IF n < 3000 THEN "4"
    ELSE "2"

\* C14: the stroke width chosen for a document depends on the number n of its
\* nucleotide labels only, by the ladder 3 / 4 / 4 / 2 with limits 200, 500
\* and 3000; a thumbnail that is returned carries that width.
C14_StrokeWidthLadder ==
    LET n == Len(Qualifying(image)) IN
    /\ StrokeWidth(Len(Points(Blocks(image)))) = LadderWidth(n)
    /\ (Called /\ thumbnail.status = "returned") => thumbnail.stroke_width = LadderWidth(n)

C14_Witness ==
    /\ Called
    /\ thumbnail.status = "returned"
    /\ Len(Qualifying(image)) = 200
    /\ thumbnail.stroke_width = "4"

\* the path commands of the labels from position k on
LineTos(q, k) ==
    [ i \in 1..(Len(q) - k + 1) |-> << "L", q[i + k - 1].x.int, q[i + k - 1].y.int >> ]

\* C15 (as stated): for n >= 1 nucleotide labels p1..pn the path is M p1
\* followed by the n-1 segments L p2 .. L pn in document order.
C15_MoveThenRest ==
    (Called /\ thumbnail.status = "returned") =>
        LET q == Qualifying(image) IN
        /\ q # <<>>
        /\ thumbnail.d = << << "M", q[1].x.int, q[1].y.int >> >> \o LineTos(q, 2)

\* C15 (amended): for n >= 1 nucleotide labels p1..pn the path is M p1
\* followed by the n segments L p1, L p2 .. L pn in document order (the first
\* point is the move-to and a line-to as well); the coordinates are the
\* integer parts; numbering labels give no point.
C15_MoveThenAll ==
    (Called /\ thumbnail.status = "returned") =>
        LET q == Qualifying(image) IN
        /\ q # <<>>
        /\ thumbnail.d = << << "M", q[1].x.int, q[1].y.int >> >> \o LineTos(q, 1)

C15_Witness ==
    /\ Called
    /\ thumbnail.status = "returned"
    /\ Len(Qualifying(image)) = 3
    /\ Len(thumbnail.d) = 4
    /\ \E i \in 1..Len(image) : \E j \in 1..Len(image[i]) :
          image[i][j].tag = "text" /\ image[i][j].class = "numbering-label"

\* the rows of metadata.tsv that name a sequence
RowsOf(id) == { r \in 1..Len(metadata.lines) : Split(metadata.lines[r], "\t")[1] = id }

\* C17: when the cascade is done, metadata.tsv holds exactly one row for
\* every claimed sequence, under either policy, also when a report holds
\* several retained rows for one sequence.
C17_OneRowPerClaimed ==
    Done => \A id \in UNION { ListedIds(d) : d \in Stages } : Cardinality(RowsOf(id)) = 1

\* C18: within a cascade the claimed set never loses a member, the first
\* working set computed is within the input ids, and every working set
\* computed after it is within the one computed before.
C18_WorkingSetShrinks ==
    [][ /\ pc # <<"start", 0>> => hits \subseteq hits'
        /\ pc[1] = "fold" =>
              subset' \subseteq (IF pc[2] = 2 THEN InputIds ELSE subset) ]_vars

C18_Witness ==
    /\ pc[1] = "run"
    /\ pc[2] >= 3
    /\ hits # {}
    /\ subset # {}
    /\ subset # all_seq_ids

\* the number of classifier invocations made for stage d
CallsOf(d) == Cardinality({ i \in 1..Len(calls) : calls[i].stage = d })

\* a step that runs the ribotyper stage d
Runs(d) ==
    /\ pc[1] = "run"
    /\ CascadeOrder[pc[2]] = d

\* C19: while the report of a ribotyper stage exists, no step changes it or
\* invokes the classifier for that stage, whatever the input now is; and a
\* step that runs the stage writes the hit list anew from the stored report,
\* filtered by the policy now selected.
C19_Memoised ==
    [][ \A d \in RibotyperStages :
          long_out[d].exists =>
            /\ long_out'[d] = long_out[d]
            /\ calls' # calls => calls'[Len(calls')].stage # d
            /\ Runs(d) =>
                 hits_txt'[d] = File(MapAwk(SelectSeq(long_out[d].lines, ReferenceKeeps)))
      ]_vars

C19_Witness ==
    /\ runs = 2
    /\ pc = <<"fold", 2>>
    /\ skip_ribovore_filters
    /\ CallsOf(rfam_output) = 1
    /\ calls[1].input # InputIds
    /\ FailRows(long_out[rfam_output].lines) >= 1
    /\ Len(hits_txt[rfam_output].lines) = Len(long_out[rfam_output].lines) - 1

\* the classifier of stage d was run and matched nothing: every row of the
\* ribotyper report is a NoHits row (or there is none); a tRNA classifier
\* listed no sequence
NoRows(d) ==
    /\ \E i \in 1..Len(calls) : calls[i].stage = d
    /\ IF d \in RibotyperStages
       THEN /\ long_out[d].exists
            /\ \A i \in 1..Len(long_out[d].lines) :
                  \/ IsComment(long_out[d].lines[i])
                  \/ Field(long_out[d].lines[i], 8) = <<"-">>
       ELSE hits_txt[d].exists /\ hits_txt[d].lines = <<>>

\* C20: a stage whose classifier matched nothing ends without error with an
\* empty hit list and no renderer call, and the next stage is run on the same
\* working set with the same claimed set.
C20_EmptyStageIsNormal ==
    /\ pc[1] # "aborted"
    /\ \A i \in 1..Len(calls) :
         NoRows(calls[i].stage) =>
           /\ hits_txt[calls[i].stage] = File(<<>>)
           /\ \A v \in 1..Len(visualised) :
                 StageOfTag(visualised[v][1]) # calls[i].stage
           /\ i < Len(calls) =>
                 /\ calls[i + 1].input = calls[i].input
                 /\ calls[i + 1].claimed = calls[i].claimed

C20_Witness ==
    /\ Len(calls) >= 3
    /\ NoRows(calls[2].stage)
    /\ calls[2].input # {}
    /\ calls[2].input # InputIds
    /\ calls[3].input = calls[2].input

\* the library tag of a stage
LibraryTag(d) ==
    CASE d = "ribovision-ssu" -> "ssu"
      [] d = "ribovision-lsu" -> "lsu"
      [] OTHER -> d

\* the renderer calls made from the i-th classifier invocation up to the next
RendersAfter(i) ==
    SubSeq(visualised, calls[i].rendered + 1,
           IF i < Len(calls) THEN calls[i + 1].rendered ELSE Len(visualised))

\* one renderer call for every row of the hit list of stage d: the stage's
\* tag, the row's sequence id, the row's template id
RowRenders(d) ==
    [ r \in 1..Len(hits_txt[d].lines) |->
        << LibraryTag(d), Split(hits_txt[d].lines[r], "\t")[1],
           Split(hits_txt[d].lines[r], "\t")[2] >> ]

DrawRenders(d) ==
    [ r \in 1..Len(hits_txt[d].lines) |->
        << LibraryTag(d), Split(hits_txt[d].lines[r], "\t")[1],
           IF d = "gtrnadb" THEN <<"None">>
           ELSE Split(hits_txt[d].lines[r], "\t")[2] >> ]

Labels == { "Rfam", "RiboVision", "CRW", "RNAse P Database", "GtRNAdb" }

\* C22: every row of metadata.tsv has a source label in its third column; no
\* row keeps a raw PASS or FAIL token.
C22_EveryRowLabelled ==
    metadata.exists =>
        \A r \in 1..Len(metadata.lines) :
            /\ Len(Split(metadata.lines[r], "\t")) = 3
            /\ \E l \in Labels : Split(metadata.lines[r], "\t")[3] = << l, "\n" >>

\* the source label of a stage
StageLabel(d) ==
    CASE d = "rfam" -> "Rfam"
      [] d = "RF00005" -> "Rfam"
      [] d = "ribovision-ssu" -> "RiboVision"
      [] d = "ribovision-lsu" -> "RiboVision"
      [] d = "crw" -> "CRW"
      [] d = "rnasep" -> "RNAse P Database"
      [] d = "gtrnadb" -> "GtRNAdb"

\* C24: whatever the output folder is called, metadata.tsv holds, for every
\* row of the hit list of a stage, the row with its sequence id and template
\* id unchanged and the label of that stage.
C24_LabelByStageAlone ==
    metadata.exists =>
        \A d \in Stages :
            \A r \in 1..Len(hits_txt[d].lines) :
                LET row == Split(hits_txt[d].lines[r], "\t") IN
                \E m \in 1..Len(metadata.lines) :
                    metadata.lines[m] =
                        row[1] \o <<"\t">> \o row[2] \o << "\t", StageLabel(d), "\n" >>

\* C23: after every run over the same output folder each sequence id has
\* rows of at most one stage in metadata.tsv: a hit list left by an earlier
\* run in the directory of a stage that this run skipped adds nothing.
C23_SkippedStageAddsNothing ==
    Done => \A id \in Range(IdPool) : Cardinality(RowsOf(id)) <= 1

\* C25: the label in a row that force_draw appended for a template of a
\* library is the label organise_metadata writes for a PASS row of the stage
\* directory of that library.
C25_SameLabelOnBothPaths ==
    \A r \in 1..Len(metadata.lines) :
        LET row == Split(metadata.lines[r], "\t") IN
        row[1] \in forced =>
            row[3] = Split(Relabel(PathJoin(output_folder,
                                            Dashed(get_model_type(force_template))),
                                   row[1] \o <<"\t">> \o row[2] \o <<"\t", "PASS", "\n">>),
                           "\t")[3]

====
